---- MODULE Spec2Model ----
(***************************************************************************)
(* Model of macos_shim.c: the exported shim functions over CGEventTap,     *)
(* CFMachPort run loop sources, CFRunLoop and CGEvent, together with the   *)
(* reference counts and run loop registrations the calls act on.           *)
(*                                                                         *)
(* Pointers are integers: NULL is 0, a tap handle is 1..MaxTaps, a caller  *)
(* event is 1..Len(EventKeycode).  Every shim call records in lastCall the *)
(* OS calls it made (os), the callback invocations that happened during it *)
(* (cb), what it printed and what it returned.                             *)
(***************************************************************************)
EXTENDS Integers, Sequences, FiniteSets, TLC

VARIABLES nextTap, tapRef, tapMask, tapEnabled, srcRef, runLoop, pending,
          released, lastEnable, addedBy, pointMem, liveEvents, crashed,
          lastCall

vars == <<nextTap, tapRef, tapMask, tapEnabled, srcRef, runLoop, pending,
          released, lastEnable, addedBy, pointMem, liveEvents, crashed,
          lastCall>>

(* ---------------------------- bounds ---------------------------------- *)
MaxTaps == 1
MaxPending == 2
MaxRelease == 2
NumThreads == 2

Taps == 1..MaxTaps
Threads == 1..NumThreads

(* ------------------------- program constants --------------------------- *)
NULL == 0
kCGEventLeftMouseDown == 1
kCGEventLeftMouseUp == 2
kCGEventRightMouseDown == 3
kCGEventRightMouseUp == 4
kCGEventMouseMoved == 5
kCGEventKeyDown == 10
kCGEventKeyUp == 11
kCGEventScrollWheel == 22
kCFRunLoopRunFinished == 1
kCFRunLoopRunTimedOut == 3
kCFRunLoopRunHandledSource == 4

\* Input event types the window server can generate that the shim never
\* names: left/right dragged, flags changed, other-button down/up/dragged.
UnlistedEventTypes == {6, 7, 12, 25, 26, 27}

\* Event types posted by the window server in the model.
PostedEventTypes == {kCGEventKeyDown, 6, 12}

\* Event types a caller hands to PrintEventInfo in the model.
PrintedEventTypes == {kCGEventKeyDown, kCGEventKeyUp, kCGEventMouseMoved,
                      kCGEventRightMouseUp, kCGEventScrollWheel, 6}

\* Value of the kCGKeyboardEventKeycode field (int64_t) of caller event i.
EventKeycode == <<0, 42, 65535, 65536, 65578, -1>>
Events == 1..Len(EventKeycode)

\* Mouse locations, each integer standing for one CGPoint value.
Locations == {0, 1}
Unwritten == -1
NoPtr == -1

\* Location stored in caller event e.
EventLocation(e) == e % 2

(* ------------------------------ helpers -------------------------------- *)
RECURSIVE Pow2(_)
Pow2(n) == IF n = 0 THEN 1 ELSE 2 * Pow2(n - 1)

\* 1 << k
Shl1(k) == Pow2(k)

\* Bitwise or of the one-bit values 1 << k, k in S (set union of bits).
RECURSIVE OrBits(_)
OrBits(S) == IF S = {} THEN 0
             ELSE LET k == CHOOSE x \in S : TRUE
                  IN  Shl1(k) + OrBits(S \ {k})

Bit(mask, t) == (mask \div Pow2(t)) % 2 = 1

\* Mutant: the 64-bit field is returned without the narrowing cast.
ToUint16_NoCast(v) == v

\* (uint16_t) v
ToUint16(v) == v % Pow2(16)

OsCall(f, obj, ptr, res) == [f |-> f, obj |-> obj, ptr |-> ptr, res |-> res]

Call(fn, thread, arg, aux, stale, ret, os, cb, printed) ==
  [fn |-> fn, thread |-> thread, arg |-> arg, aux |-> aux, stale |-> stale,
   ret |-> ret, os |-> os, cb |-> cb, printed |-> printed]

\* Whether the caller has already passed this handle to CleanupEventTap.
Stale(tap) == tap # NULL /\ released[tap] > 0

\* Mutant: the mask also selects left-mouse-dragged (type 6).
eventMask_WithDragged ==
  OrBits({kCGEventKeyDown, kCGEventKeyUp,
          kCGEventLeftMouseDown, kCGEventLeftMouseUp,
          kCGEventRightMouseDown, kCGEventRightMouseUp,
          kCGEventMouseMoved, kCGEventScrollWheel, 6})

\* CGEventMask eventMask = (1 << kCGEventKeyDown) | ...
eventMask ==
  OrBits({kCGEventKeyDown, kCGEventKeyUp,
          kCGEventLeftMouseDown, kCGEventLeftMouseUp,
          kCGEventRightMouseDown, kCGEventRightMouseUp,
          kCGEventMouseMoved, kCGEventScrollWheel})

(* ------------------------------- Init ---------------------------------- *)
Init ==
  /\ nextTap = 0
  /\ tapRef = [h \in Taps |-> 0]
  /\ tapMask = [h \in Taps |-> 0]
  /\ tapEnabled = [h \in Taps |-> FALSE]
  /\ srcRef = [h \in Taps |-> 0]
  /\ runLoop = [t \in Threads |-> {}]
  /\ pending = [h \in Taps |-> <<>>]
  /\ released = [h \in Taps |-> 0]
  /\ lastEnable = [h \in Taps |-> TRUE]
  /\ addedBy = [h \in Taps |-> {}]
  /\ pointMem = Unwritten
  /\ liveEvents = 0
  /\ crashed = FALSE
  /\ lastCall = Call("none", 1, NoPtr, 0, FALSE, 0, <<>>, <<>>, <<>>)

(* -------------------------- OS object model ---------------------------- *)
\* Handles the caller can hold: NULL or a handle CGEventTapCreate returned.
CallerTaps == {NULL} \cup (1..nextTap)

\* CFRelease((CFMachPortRef)tap): drop one reference.  Releasing a dead
\* object is undefined (crash or no visible effect).  The last release
\* deallocates the port, which invalidates it: its run loop source leaves
\* every run loop.  If the source still held the reference that was taken
\* away the outcome is undefined as well.
CFReleaseTap(h) ==
  IF tapRef[h] = 0
  THEN /\ crashed' \in BOOLEAN
       /\ UNCHANGED <<tapRef, tapEnabled, srcRef, runLoop, pending>>
  ELSE IF tapRef[h] = 1
  THEN /\ tapRef' = [tapRef EXCEPT ![h] = 0]
       /\ tapEnabled' = [tapEnabled EXCEPT ![h] = FALSE]
       /\ srcRef' = [srcRef EXCEPT ![h] = 0]
       /\ runLoop' = [t \in Threads |-> runLoop[t] \ {h}]
       /\ pending' = [pending EXCEPT ![h] = <<>>]
       /\ crashed' \in (IF srcRef[h] > 0 THEN BOOLEAN ELSE {FALSE})
  ELSE /\ tapRef' = [tapRef EXCEPT ![h] = @ - 1]
       /\ crashed' = FALSE
       /\ UNCHANGED <<tapEnabled, srcRef, runLoop, pending>>

(* --------------------------- shim functions ---------------------------- *)
\* Mutant: the tap is retained once more before it is returned.
InitializeEventTap_Retained ==
  /\ ~crashed
  /\ \E eventTap \in {NULL} \cup (IF nextTap < MaxTaps THEN {nextTap + 1} ELSE {}) :
       IF eventTap = NULL
       THEN /\ lastCall' = Call("InitializeEventTap", 1, NoPtr, eventMask, FALSE, NULL,
                                <<OsCall("CGEventTapCreate", "none", NoPtr, NULL)>>, <<>>,
                                <<<<"Failed to create event tap.", 0>>>>)
            /\ UNCHANGED <<nextTap, tapRef, tapMask, tapEnabled, lastEnable>>
       ELSE /\ nextTap' = eventTap
            /\ tapRef' = [tapRef EXCEPT ![eventTap] = 2]
            /\ tapMask' = [tapMask EXCEPT ![eventTap] = eventMask]
            /\ tapEnabled' = [tapEnabled EXCEPT ![eventTap] = TRUE]
            /\ lastEnable' = [lastEnable EXCEPT ![eventTap] = TRUE]
            /\ lastCall' = Call("InitializeEventTap", 1, NoPtr, eventMask, FALSE, eventTap,
                                <<OsCall("CGEventTapCreate", "none", NoPtr, eventTap)>>, <<>>,
                                <<>>)
  /\ UNCHANGED <<srcRef, runLoop, pending, released, addedBy, pointMem,
                 liveEvents, crashed>>

\* void* InitializeEventTap(EventTapCallback callback, void* userData)
InitializeEventTap ==
  /\ ~crashed
  /\ \E eventTap \in {NULL} \cup (IF nextTap < MaxTaps THEN {nextTap + 1} ELSE {}) :
       IF eventTap = NULL
       THEN /\ lastCall' = Call("InitializeEventTap", 1, NoPtr, eventMask, FALSE, NULL,
                                <<OsCall("CGEventTapCreate", "none", NoPtr, NULL)>>, <<>>,
                                <<<<"Failed to create event tap.", 0>>>>)
            /\ UNCHANGED <<nextTap, tapRef, tapMask, tapEnabled, lastEnable>>
       ELSE /\ nextTap' = eventTap
            /\ tapRef' = [tapRef EXCEPT ![eventTap] = 1]
            /\ tapMask' = [tapMask EXCEPT ![eventTap] = eventMask]
            /\ tapEnabled' = [tapEnabled EXCEPT ![eventTap] = TRUE]
            /\ lastEnable' = [lastEnable EXCEPT ![eventTap] = TRUE]
            /\ lastCall' = Call("InitializeEventTap", 1, NoPtr, eventMask, FALSE, eventTap,
                                <<OsCall("CGEventTapCreate", "none", NoPtr, eventTap)>>, <<>>,
                                <<>>)
  /\ UNCHANGED <<srcRef, runLoop, pending, released, addedBy, pointMem,
                 liveEvents, crashed>>

\* void EnableEventTap(void* tap, bool enable)
EnableEventTap(tap, enable) ==
  /\ ~crashed
  /\ IF tap # NULL
     THEN /\ lastEnable' = [lastEnable EXCEPT ![tap] = enable]
          /\ lastCall' = Call("EnableEventTap", 1, tap, IF enable THEN 1 ELSE 0, Stale(tap), 0,
                              <<OsCall("CGEventTapEnable", "tap", tap, 0)>>, <<>>, <<>>)
          /\ IF tapRef[tap] = 0
             THEN /\ crashed' \in BOOLEAN
                  /\ UNCHANGED tapEnabled
             ELSE /\ tapEnabled' = [tapEnabled EXCEPT ![tap] = enable]
                  /\ crashed' = FALSE
     ELSE /\ lastCall' = Call("EnableEventTap", 1, tap, IF enable THEN 1 ELSE 0, FALSE, 0,
                              <<>>, <<>>, <<>>)
          /\ UNCHANGED <<lastEnable, tapEnabled, crashed>>
  /\ UNCHANGED <<nextTap, tapRef, tapMask, srcRef, runLoop, pending, released,
                 addedBy, pointMem, liveEvents>>

\* Mutant: the main thread's run loop instead of the calling thread's.
CFRunLoopGetMain(t) == 1

\* CFRunLoopGetCurrent(), called on thread t
CFRunLoopGetCurrent(t) == t

\* Mutant: the created source is added but never released.
AddSourceNoRelease(t, tap, runLoopSource) ==
  LET rl == CFRunLoopGetCurrent(t)
  IN  /\ tapRef' = [tapRef EXCEPT ![tap] = IF srcRef[tap] = 0 THEN @ + 1 ELSE @]
      /\ srcRef' = [srcRef EXCEPT ![tap] =
                      @ + 1 + (IF tap \in runLoop[rl] THEN 0 ELSE 1)]
      /\ runLoop' = [runLoop EXCEPT ![rl] = @ \cup {tap}]
      /\ lastCall' = Call("AddEventTapToCurrentRunLoop", t, tap, 0, Stale(tap), 0,
                          <<OsCall("CFMachPortCreateRunLoopSource", "tap", tap, runLoopSource),
                            OsCall("CFRunLoopAddSource", "source", runLoopSource, rl)>>,
                          <<>>, <<>>)

\* The body of `if (runLoopSource)`: the source was created (one reference
\* for the shim, and on first creation one reference of the source on the
\* tap); CFRunLoopAddSource makes the run loop retain it unless it is
\* already in that run loop's mode; CFRelease drops the shim's reference.
AddSourceAndRelease(t, tap, runLoopSource) ==
  LET rl == CFRunLoopGetCurrent(t)
  IN  /\ tapRef' = [tapRef EXCEPT ![tap] = IF srcRef[tap] = 0 THEN @ + 1 ELSE @]
      /\ srcRef' = [srcRef EXCEPT ![tap] =
                      @ + 1 + (IF tap \in runLoop[rl] THEN 0 ELSE 1) - 1]
      /\ runLoop' = [runLoop EXCEPT ![rl] = @ \cup {tap}]
      /\ lastCall' = Call("AddEventTapToCurrentRunLoop", t, tap, 0, Stale(tap), 0,
                          <<OsCall("CFMachPortCreateRunLoopSource", "tap", tap, runLoopSource),
                            OsCall("CFRunLoopAddSource", "source", runLoopSource, rl),
                            OsCall("CFRelease", "source", runLoopSource, 0)>>,
                          <<>>, <<>>)

\* void AddEventTapToCurrentRunLoop(void* tap), called on thread t
AddEventTapToCurrentRunLoop(t, tap) ==
  /\ ~crashed
  /\ IF tap # NULL
     THEN IF tapRef[tap] = 0
          THEN /\ crashed' \in BOOLEAN
               /\ lastCall' = Call("AddEventTapToCurrentRunLoop", t, tap, 0, Stale(tap), 0,
                                   <<OsCall("CFMachPortCreateRunLoopSource", "tap", tap, NULL)>>,
                                   <<>>, <<>>)
               /\ UNCHANGED <<tapRef, srcRef, runLoop, addedBy>>
          ELSE \E runLoopSource \in {NULL, tap} :
                 IF runLoopSource # NULL
                 THEN /\ AddSourceAndRelease(t, tap, runLoopSource)
                      /\ addedBy' = [addedBy EXCEPT ![tap] = @ \cup {t}]
                      /\ crashed' = FALSE
                 ELSE /\ lastCall' = Call("AddEventTapToCurrentRunLoop", t, tap, 0, Stale(tap), 0,
                                          <<OsCall("CFMachPortCreateRunLoopSource", "tap", tap, NULL)>>,
                                          <<>>, <<>>)
                      /\ UNCHANGED <<tapRef, srcRef, runLoop, addedBy, crashed>>
     ELSE /\ lastCall' = Call("AddEventTapToCurrentRunLoop", t, tap, 0, FALSE, 0, <<>>, <<>>, <<>>)
          /\ UNCHANGED <<tapRef, srcRef, runLoop, addedBy, crashed>>
  /\ UNCHANGED <<nextTap, tapMask, tapEnabled, pending, released, lastEnable,
                 pointMem, liveEvents>>

\* Mutant: the tap is released twice in one call.
CleanupEventTap_Twice(tap) ==
  /\ ~crashed
  /\ IF tap # NULL
     THEN /\ released[tap] < MaxRelease
          /\ released' = [released EXCEPT ![tap] = @ + 2]
          /\ CFReleaseTap(tap)
          /\ lastCall' = Call("CleanupEventTap", 1, tap, 0, Stale(tap), 0,
                              <<OsCall("CFRelease", "tap", tap, 0),
                                OsCall("CFRelease", "tap", tap, 0)>>, <<>>, <<>>)
     ELSE /\ lastCall' = Call("CleanupEventTap", 1, tap, 0, FALSE, 0, <<>>, <<>>, <<>>)
          /\ UNCHANGED <<released, tapRef, tapEnabled, srcRef, runLoop, pending, crashed>>
  /\ UNCHANGED <<nextTap, tapMask, lastEnable, addedBy, pointMem, liveEvents>>

\* void CleanupEventTap(void* tap)
CleanupEventTap(tap) ==
  /\ ~crashed
  /\ IF tap # NULL
     THEN /\ released[tap] < MaxRelease
          /\ released' = [released EXCEPT ![tap] = @ + 1]
          /\ CFReleaseTap(tap)
          /\ lastCall' = Call("CleanupEventTap", 1, tap, 0, Stale(tap), 0,
                              <<OsCall("CFRelease", "tap", tap, 0)>>, <<>>, <<>>)
     ELSE /\ lastCall' = Call("CleanupEventTap", 1, tap, 0, FALSE, 0, <<>>, <<>>, <<>>)
          /\ UNCHANGED <<released, tapRef, tapEnabled, srcRef, runLoop, pending, crashed>>
  /\ UNCHANGED <<nextTap, tapMask, lastEnable, addedBy, pointMem, liveEvents>>

\* Taps whose source is in thread t's run loop and has an event to deliver.
ReadySources(t) ==
  {h \in runLoop[t] : tapEnabled[h] /\ pending[h] # <<>>}

\* Mutant: returnAfterSourceHandled is false, so one call drains every
\* event queued on the chosen source before it returns.
RunCurrentRunLoop_Drain(t, seconds) ==
  /\ ~crashed
  /\ IF runLoop[t] = {}
     THEN /\ lastCall' = Call("RunCurrentRunLoopWithTimeout", t, NoPtr, seconds, FALSE,
                              kCFRunLoopRunFinished,
                              <<OsCall("CFRunLoopRunInMode", "none", NoPtr, kCFRunLoopRunFinished)>>,
                              <<>>, <<>>)
          /\ UNCHANGED pending
     ELSE IF ReadySources(t) = {}
     THEN /\ lastCall' = Call("RunCurrentRunLoopWithTimeout", t, NoPtr, seconds, FALSE,
                              kCFRunLoopRunTimedOut,
                              <<OsCall("CFRunLoopRunInMode", "none", NoPtr, kCFRunLoopRunTimedOut)>>,
                              <<>>, <<>>)
          /\ UNCHANGED pending
     ELSE \E h \in ReadySources(t) :
            /\ pending' = [pending EXCEPT ![h] = <<>>]
            /\ lastCall' = Call("RunCurrentRunLoopWithTimeout", t, NoPtr, seconds, FALSE,
                                kCFRunLoopRunTimedOut,
                                <<OsCall("CFRunLoopRunInMode", "none", NoPtr, kCFRunLoopRunTimedOut)>>,
                                [i \in 1..Len(pending[h]) |-> [tap |-> h, type |-> pending[h][i]]],
                                <<>>)
  /\ UNCHANGED <<nextTap, tapRef, tapMask, tapEnabled, srcRef, runLoop, released,
                 lastEnable, addedBy, pointMem, liveEvents, crashed>>

\* int RunCurrentRunLoopWithTimeout(double seconds), called on thread t:
\* CFRunLoopRunInMode(kCFRunLoopDefaultMode, seconds, true)
RunCurrentRunLoopWithTimeout(t, seconds) ==
  /\ ~crashed
  /\ IF runLoop[t] = {}
     THEN /\ lastCall' = Call("RunCurrentRunLoopWithTimeout", t, NoPtr, seconds, FALSE,
                              kCFRunLoopRunFinished,
                              <<OsCall("CFRunLoopRunInMode", "none", NoPtr, kCFRunLoopRunFinished)>>,
                              <<>>, <<>>)
          /\ UNCHANGED pending
     ELSE IF ReadySources(t) = {}
     THEN /\ lastCall' = Call("RunCurrentRunLoopWithTimeout", t, NoPtr, seconds, FALSE,
                              kCFRunLoopRunTimedOut,
                              <<OsCall("CFRunLoopRunInMode", "none", NoPtr, kCFRunLoopRunTimedOut)>>,
                              <<>>, <<>>)
          /\ UNCHANGED pending
     ELSE \E h \in ReadySources(t) :
            /\ pending' = [pending EXCEPT ![h] = Tail(@)]
            /\ lastCall' = Call("RunCurrentRunLoopWithTimeout", t, NoPtr, seconds, FALSE,
                                kCFRunLoopRunHandledSource,
                                <<OsCall("CFRunLoopRunInMode", "none", NoPtr, kCFRunLoopRunHandledSource)>>,
                                <<[tap |-> h, type |-> Head(pending[h])]>>, <<>>)
  /\ UNCHANGED <<nextTap, tapRef, tapMask, tapEnabled, srcRef, runLoop, released,
                 lastEnable, addedBy, pointMem, liveEvents, crashed>>

\* uint16_t GetKeyCodeFromEvent(CGEventRef event)
GetKeyCodeFromEvent(event) ==
  /\ ~crashed
  /\ IF event # NULL
     THEN lastCall' = Call("GetKeyCodeFromEvent", 1, event, 0, FALSE,
                           ToUint16(EventKeycode[event]),
                           <<OsCall("CGEventGetIntegerValueField", "event", event, EventKeycode[event])>>,
                           <<>>, <<>>)
     ELSE lastCall' = Call("GetKeyCodeFromEvent", 1, event, 0, FALSE, 0, <<>>, <<>>, <<>>)
  /\ UNCHANGED <<nextTap, tapRef, tapMask, tapEnabled, srcRef, runLoop, pending,
                 released, lastEnable, addedBy, pointMem, liveEvents, crashed>>

\* Handle of the temporary event CGEventCreate(NULL) returns.
TempEvent == Len(EventKeycode) + 1

\* Mutant: the temporary event is not released.
ReadLocationNoRelease(point, event, location) ==
  /\ pointMem' = location
  /\ liveEvents' = liveEvents + 1
  /\ lastCall' = Call("GetCurrentMousePos", 1, point, location, FALSE, 0,
                      <<OsCall("CGEventCreate", "none", NoPtr, event),
                        OsCall("CGEventGetLocation", "event", event, location)>>,
                      <<>>, <<>>)

\* The body of `if (event)`: *point = CGEventGetLocation(event);
\* CFRelease(event); return 0;
ReadLocationAndRelease(point, event, location) ==
  /\ pointMem' = location
  /\ liveEvents' = liveEvents + 1 - 1
  /\ lastCall' = Call("GetCurrentMousePos", 1, point, location, FALSE, 0,
                      <<OsCall("CGEventCreate", "none", NoPtr, event),
                        OsCall("CGEventGetLocation", "event", event, location),
                        OsCall("CFRelease", "event", event, 0)>>,
                      <<>>, <<>>)

\* int GetCurrentMousePos(CGPoint* point); point is NULL or the address (1)
\* of the caller's CGPoint, whose content is pointMem.
GetCurrentMousePos(point) ==
  /\ ~crashed
  /\ IF point = NULL
     THEN /\ lastCall' = Call("GetCurrentMousePos", 1, point, 0, FALSE, -1, <<>>, <<>>, <<>>)
          /\ UNCHANGED <<pointMem, liveEvents>>
     ELSE \E event \in {NULL, TempEvent}, location \in Locations :
            IF event # NULL
            THEN ReadLocationAndRelease(point, event, location)
            ELSE /\ UNCHANGED <<pointMem, liveEvents>>
                 /\ lastCall' = Call("GetCurrentMousePos", 1, point, 0, FALSE, -1,
                                     <<OsCall("CGEventCreate", "none", NoPtr, NULL)>>,
                                     <<>>, <<>>)
  /\ UNCHANGED <<nextTap, tapRef, tapMask, tapEnabled, srcRef, runLoop, pending,
                 released, lastEnable, addedBy, crashed>>

\* void PrintEventInfo(CGEventType type, CGEventRef event); reading a field
\* of a NULL event is undefined (crash, or a zero result).
PrintEventInfo(type, event) ==
  /\ ~crashed
  /\ IF type = kCGEventKeyDown \/ type = kCGEventKeyUp
     THEN LET field == IF event = NULL THEN 0 ELSE EventKeycode[event]
          IN  /\ lastCall' = Call("PrintEventInfo", 1, event, type, FALSE, 0,
                                  <<OsCall("CGEventGetIntegerValueField", "event", event, field)>>,
                                  <<>>,
                                  <<<<"Event type", type>>, <<"Key code", ToUint16(field)>>>>)
              /\ crashed' \in (IF event = NULL THEN BOOLEAN ELSE {FALSE})
     ELSE IF type = kCGEventMouseMoved
             \/ type = kCGEventLeftMouseDown \/ type = kCGEventLeftMouseUp
             \/ type = kCGEventRightMouseDown \/ type = kCGEventRightMouseUp
     THEN LET location == IF event = NULL THEN 0 ELSE EventLocation(event)
          IN  /\ lastCall' = Call("PrintEventInfo", 1, event, type, FALSE, 0,
                                  <<OsCall("CGEventGetLocation", "event", event, location)>>,
                                  <<>>,
                                  <<<<"Event type", type>>, <<"Mouse location", location>>>>)
              /\ crashed' \in (IF event = NULL THEN BOOLEAN ELSE {FALSE})
     ELSE /\ lastCall' = Call("PrintEventInfo", 1, event, type, FALSE, 0, <<>>, <<>>,
                              <<<<"Event type", type>>>>)
          /\ UNCHANGED crashed
  /\ UNCHANGED <<nextTap, tapRef, tapMask, tapEnabled, srcRef, runLoop, pending,
                 released, lastEnable, addedBy, pointMem, liveEvents>>

(* ----------------------------- environment ----------------------------- *)
\* The window server generates an input event of the given type: every
\* live, enabled tap whose mask selects the type gets it queued on its port.
PostInputEvent(type) ==
  /\ ~crashed
  /\ pending' = [h \in Taps |->
                   IF /\ tapRef[h] > 0
                      /\ tapEnabled[h]
                      /\ Bit(tapMask[h], type)
                      /\ Len(pending[h]) < MaxPending
                   THEN Append(pending[h], type)
                   ELSE pending[h]]
  /\ UNCHANGED <<nextTap, tapRef, tapMask, tapEnabled, srcRef, runLoop, released,
                 lastEnable, addedBy, pointMem, liveEvents, crashed, lastCall>>

(* ---------------------------- specification ---------------------------- *)
\* The tap lifecycle: create, enable, add to a run loop, pump, release.
Next ==
  \/ InitializeEventTap
  \/ \E tap \in CallerTaps, enable \in BOOLEAN : EnableEventTap(tap, enable)
  \/ \E t \in Threads, tap \in CallerTaps : AddEventTapToCurrentRunLoop(t, tap)
  \/ \E tap \in CallerTaps : CleanupEventTap(tap)
  \/ \E t \in Threads : RunCurrentRunLoopWithTimeout(t, 0)
  \/ \E type \in PostedEventTypes : PostInputEvent(type)

Spec == Init /\ [][Next]_vars

\* The field extraction helpers, which touch no tap.
NextHelpers ==
  \/ \E event \in {NULL} \cup Events : GetKeyCodeFromEvent(event)
  \/ \E point \in {NULL, 1} : GetCurrentMousePos(point)
  \/ \E type \in PrintedEventTypes, event \in {NULL} \cup Events : PrintEventInfo(type, event)

SpecHelpers == Init /\ [][NextHelpers]_vars

(* ------------------------------- claims -------------------------------- *)
OsCallsOf(f) == {i \in 1..Len(lastCall.os) : lastCall.os[i].f = f}

RECURSIVE TotalPending(_)
TotalPending(S) == IF S = {} THEN 0
                   ELSE LET h == CHOOSE x \in S : TRUE
                        IN  Len(pending[h]) + TotalPending(S \ {h})

\* The eight event types the claim lists.
ListenedTypes == {kCGEventKeyDown, kCGEventKeyUp, kCGEventLeftMouseDown,
                  kCGEventLeftMouseUp, kCGEventRightMouseDown,
                  kCGEventRightMouseUp, kCGEventMouseMoved, kCGEventScrollWheel}

\* C1: a call whose pointer argument (tap, event or point) is null makes no
\* OS call that receives the null pointer.
C1_NullNeverForwarded ==
  lastCall.arg = NULL =>
    \A i \in 1..Len(lastCall.os) : lastCall.os[i].ptr # NULL

\* C2: InitializeEventTap returns NULL exactly when CGEventTapCreate returned
\* no tap and otherwise returns the created handle, which then carries one
\* reference; a failed call creates no handle and changes no reference count
\* and no run loop.
C2_InitializeReturnsOsHandle ==
  /\ [](lastCall.fn = "InitializeEventTap" =>
          /\ Len(lastCall.os) = 1
          /\ lastCall.os[1].f = "CGEventTapCreate"
          /\ lastCall.ret = lastCall.os[1].res
          /\ (lastCall.ret = NULL <=> lastCall.os[1].res = NULL)
          /\ lastCall.ret # NULL =>
               /\ lastCall.ret = nextTap
               /\ tapRef[lastCall.ret] = 1
               /\ \A t \in Threads : lastCall.ret \notin runLoop[t])
  /\ [][(lastCall'.fn = "InitializeEventTap" /\ lastCall'.ret = NULL) =>
          UNCHANGED <<nextTap, tapRef, srcRef, runLoop>>]_vars

C2_Witness ==
  /\ lastCall.fn = "InitializeEventTap"
  /\ lastCall.ret # NULL
  /\ tapRef[lastCall.ret] = 1

\* C3: GetCurrentMousePos returns -1 and leaves *point as it was when point
\* is null or CGEventCreate fails, returns 0 with the event's location in
\* *point otherwise, and releases the temporary event exactly once whenever
\* it was created, so no temporary event outlives the call.
C3_MousePosResultAndRelease ==
  /\ [](lastCall.fn = "GetCurrentMousePos" =>
          LET failed == \/ lastCall.arg = NULL
                        \/ \E i \in OsCallsOf("CGEventCreate") : lastCall.os[i].res = NULL
              made == {i \in OsCallsOf("CGEventCreate") : lastCall.os[i].res # NULL}
          IN  /\ lastCall.ret = (IF failed THEN -1 ELSE 0)
              /\ lastCall.arg = NULL => lastCall.os = <<>>
              /\ ~failed =>
                   \E i \in OsCallsOf("CGEventGetLocation") :
                     pointMem = lastCall.os[i].res
              /\ Cardinality(OsCallsOf("CFRelease")) = Cardinality(made)
              /\ Cardinality(made) <= 1
              /\ \A i \in OsCallsOf("CFRelease"), j \in made :
                   lastCall.os[i].ptr = lastCall.os[j].res /\ j < i)
  /\ [](liveEvents = 0)
  /\ [][(lastCall'.fn = "GetCurrentMousePos" /\ lastCall'.ret = -1) =>
          pointMem' = pointMem]_vars

C3_Witness ==
  /\ lastCall.fn = "GetCurrentMousePos"
  /\ lastCall.ret = 0
  /\ pointMem = 1
  /\ OsCallsOf("CFRelease") # {}

\* C4: after the one CleanupEventTap(tap) of a created tap, the tap's
\* reference count is zero and no run loop holds a source for it.
C4_CleanupReleasesEverything ==
  (lastCall.fn = "CleanupEventTap" /\ lastCall.arg # NULL /\ ~lastCall.stale) =>
    /\ tapRef[lastCall.arg] = 0
    /\ \A t \in Threads : lastCall.arg \notin runLoop[t]

\* C5: the mask InitializeEventTap passes to the OS, and so the mask of
\* every tap, has exactly the bits of the eight listed event types, and the
\* callback is invoked only for events of those types.
C5_MaskIsExactlyEightTypes ==
  /\ lastCall.fn = "InitializeEventTap" =>
       \A t \in 0..30 : Bit(lastCall.aux, t) <=> t \in ListenedTypes
  /\ \A h \in Taps : tapRef[h] > 0 =>
       \A t \in ListenedTypes \cup UnlistedEventTypes :
         Bit(tapMask[h], t) <=> t \in ListenedTypes
  /\ \A h \in Taps : \A i \in 1..Len(pending[h]) : pending[h][i] \in ListenedTypes
  /\ \A i \in 1..Len(lastCall.cb) : lastCall.cb[i].type \in ListenedTypes

C5_Witness ==
  /\ lastCall.fn = "RunCurrentRunLoopWithTimeout"
  /\ lastCall.cb # <<>>
  /\ lastCall.cb[1].type = kCGEventKeyDown

\* C6: GetKeyCodeFromEvent returns 0 for a null event without calling the
\* OS, and for a non-null event the value in 0..65535 congruent to the
\* keycode field modulo 2^16, which equals the field exactly when the field
\* is in 0..65535.
C6_KeyCodeTruncated ==
  lastCall.fn = "GetKeyCodeFromEvent" =>
    IF lastCall.arg = NULL
    THEN lastCall.ret = 0 /\ lastCall.os = <<>>
    ELSE /\ Len(lastCall.os) = 1
         /\ LET v == lastCall.os[1].res
            IN  /\ v = EventKeycode[lastCall.arg]
                /\ lastCall.ret \in 0..65535
                /\ (v - lastCall.ret) % 65536 = 0
                /\ (lastCall.ret = v <=> v \in 0..65535)

C6_Witness ==
  /\ lastCall.fn = "GetKeyCodeFromEvent"
  /\ lastCall.arg # NULL
  /\ lastCall.os[1].res = 65578
  /\ lastCall.ret = 42

\* C7: when AddEventTapToCurrentRunLoop returns, the source of a tap has
\* exactly one reference per run loop it is in (the shim keeps none); a
\* successful call put the source in the calling thread's run loop and
\* released it once, after adding it; a call whose source creation failed
\* added and released nothing.
C7_SourceReferenceBalanced ==
  /\ [](\A h \in Taps :
          srcRef[h] = Cardinality({t \in Threads : h \in runLoop[t]}))
  /\ [](lastCall.fn = "AddEventTapToCurrentRunLoop" /\ lastCall.arg # NULL =>
          /\ Len(lastCall.os) >= 1
          /\ lastCall.os[1].f = "CFMachPortCreateRunLoopSource"
          /\ IF lastCall.os[1].res # NULL
             THEN /\ Len(lastCall.os) = 3
                  /\ lastCall.os[2].f = "CFRunLoopAddSource"
                  /\ lastCall.os[2].ptr = lastCall.os[1].res
                  /\ lastCall.os[2].res = lastCall.thread
                  /\ lastCall.os[3].f = "CFRelease"
                  /\ lastCall.os[3].ptr = lastCall.os[1].res
                  /\ lastCall.arg \in runLoop[lastCall.thread]
             ELSE Len(lastCall.os) = 1)
  /\ [][(/\ lastCall'.fn = "AddEventTapToCurrentRunLoop"
         /\ Len(lastCall'.os) = 1
         /\ lastCall'.os[1].res = NULL) =>
          UNCHANGED <<runLoop, srcRef, tapRef>>]_vars

C7_Witness ==
  /\ lastCall.fn = "AddEventTapToCurrentRunLoop"
  /\ Len(lastCall.os) = 3
  /\ srcRef[lastCall.arg] = 2

\* C8: the callback is invoked only during RunCurrentRunLoopWithTimeout, on
\* a thread that called AddEventTapToCurrentRunLoop for the tap, and only
\* if the last EnableEventTap on the tap, if any, passed enable = true.
C8_CallbackOnlyWhenRunAddedEnabled ==
  \A i \in 1..Len(lastCall.cb) :
    /\ lastCall.fn = "RunCurrentRunLoopWithTimeout"
    /\ lastCall.thread \in addedBy[lastCall.cb[i].tap]
    /\ lastEnable[lastCall.cb[i].tap]

C8_Witness ==
  /\ lastCall.fn = "RunCurrentRunLoopWithTimeout"
  /\ lastCall.thread = 2
  /\ lastCall.cb # <<>>
  /\ \E h \in Taps : ~lastEnable[h] \/ addedBy[h] # Threads

\* C9: one RunCurrentRunLoopWithTimeout call handles at most one queued
\* event, returns the OS result code unchanged, reports a handled source
\* exactly when it handled one, and lowers the number of queued events by
\* at most one.
C9_RunHandlesAtMostOne ==
  /\ [](lastCall.fn = "RunCurrentRunLoopWithTimeout" =>
          /\ Len(lastCall.cb) <= 1
          /\ Len(lastCall.os) = 1
          /\ lastCall.ret = lastCall.os[1].res
          /\ (lastCall.ret = kCFRunLoopRunHandledSource <=> Len(lastCall.cb) = 1)
          /\ (lastCall.ret = kCFRunLoopRunFinished <=> runLoop[lastCall.thread] = {}))
  /\ [][lastCall'.fn = "RunCurrentRunLoopWithTimeout" =>
          TotalPending(Taps)' >= TotalPending(Taps) - 1]_vars

C9_Witness ==
  /\ lastCall.fn = "RunCurrentRunLoopWithTimeout"
  /\ Len(lastCall.cb) = 1
  /\ pending[lastCall.cb[1].tap] # <<>>

\* C10 as stated: no OS call ever receives a tap handle that an earlier
\* CleanupEventTap released, and no handle is released more often than it
\* was created.
C10_NoUseAfterRelease ==
  /\ \A i \in 1..Len(lastCall.os) :
       lastCall.os[i].obj = "tap" =>
         ~(lastCall.stale /\ lastCall.os[i].ptr = lastCall.arg)
  /\ \A h \in Taps : released[h] <= (IF h <= nextTap THEN 1 ELSE 0)

\* C10 amended: the shim forwards exactly the handle it is given and
\* CleanupEventTap releases its argument once per call; a released handle
\* reaches the OS, a handle is released again, or the process faults, only
\* in a call to which the caller passed an already cleaned-up handle.
C10_StaleOnlyFromCaller ==
  /\ [](\A i \in 1..Len(lastCall.os) :
          lastCall.os[i].obj = "tap" => lastCall.os[i].ptr = lastCall.arg)
  /\ [](crashed => lastCall.stale)
  /\ [](\A h \in Taps : released[h] > 0 => h <= nextTap)
  /\ [][\A h \in Taps :
          released'[h] # released[h] =>
            /\ released'[h] = released[h] + 1
            /\ lastCall'.fn = "CleanupEventTap"
            /\ lastCall'.arg = h
            /\ Cardinality(OsCallsOf("CFRelease"))' = 1
            /\ (released[h] > 0 <=> lastCall'.stale)]_vars

C10_Witness ==
  /\ lastCall.fn = "EnableEventTap"
  /\ lastCall.stale
  /\ lastCall.os # <<>>
  /\ released[lastCall.arg] = 2

====
